---- MODULE Spec2Model ----
(***************************************************************************)
(* Configuration resolution (ConfigBuilder -> Config) and channel topic    *)
(* derivation (Channel::channel_to_string, Channel::build_hashmap, and the *)
(* free functions of channel/name.rs) of moleculer-rs.                     *)
(*                                                                         *)
(* Strings that the code formats or inspects are sequences of one-char     *)
(* strings, so that prefixes, suffixes and collisions are decided by the   *)
(* characters.  Values the code only carries around (enum tags, the NATS   *)
(* address, the f32 threshold) are atoms.                                  *)
(***************************************************************************)
EXTENDS Integers, Sequences, FiniteSets, TLC

VARIABLES env, builder, overrides, cfg, table, last

vars == <<env, builder, overrides, cfg, table, last>>

(***************************************************************************)
(* Bounds of the model                                                     *)
(***************************************************************************)
MaxNsLen == 2
MaxIfs == 2
MaxOverrides == 2

Nodes == {1, 2}

(***************************************************************************)
(* Input strings.  Namespaces are concatenations of a few tokens, node ids *)
(* a fixed set; both are chosen so that dots and role words occur in them. *)
(***************************************************************************)
RECURSIVE Words(_, _)
Words(T, k) ==
    IF k = 0 THEN {<<>>}
    ELSE LET W == Words(T, k - 1) IN W \cup {w \o t : w \in W, t \in T}

NsTokens == {<<"a">>, <<".", "R", "E", "Q">>}

Namespaces == Words(NsTokens, MaxNsLen)
NodeIds == {<<>>, <<".">>, <<"I", "N", "F", "O">>, <<".", "I", "N", "F", "O">>}

\* util::gen_node_id(): a generated identifier, never empty
GenNodeIds == {<<"n", "1">>}
\* util::hostname()
Hostnames == {<<"h", "a">>, <<"h", "b">>}
\* Uuid::new_v4().to_string()
Uuids == {<<"u", "1">>, <<"u", "2">>}

(***************************************************************************)
(* Network interfaces and the rendering of their addresses                 *)
(***************************************************************************)
V4(a, b, c, d) == [kind |-> "V4", octets |-> <<a, b, c, d>>]
V6(s) == [kind |-> "V6", segments |-> s]

Interfaces ==
    { [name |-> "lo",   addr |-> V4(127, 0, 0, 1)],
      [name |-> "eth0", addr |-> V4(10, 0, 0, 5)],
      [name |-> "eth1", addr |-> V4(192, 168, 1, 20)],
      [name |-> "lo6",  addr |-> V6(<<0, 0, 0, 0, 0, 0, 0, 1>>)],
      [name |-> "eth6", addr |-> V6(<<65152, 0, 0, 0, 0, 0, 0, 26>>)] }

RECURSIVE SeqsUpTo(_, _)
SeqsUpTo(S, k) ==
    IF k = 0 THEN {<<>>}
    ELSE LET W == SeqsUpTo(S, k - 1) IN W \cup {Append(w, x) : w \in W, x \in S}

\* get_if_addrs::get_if_addrs(): io::Result<Vec<Interface>>
IfAddrResults ==
    {[tag |-> "Err", val |-> <<>>]}
        \cup {[tag |-> "Ok", val |-> v] : v \in SeqsUpTo(Interfaces, MaxIfs)}

unwrap_or_default(r) == IF r.tag = "Ok" THEN r.val ELSE <<>>

is_ipv4(ip) == ip.kind = "V4"

is_loopback(ip) ==
    IF ip.kind = "V4" THEN ip.octets[1] = 127
    ELSE ip.segments = <<0, 0, 0, 0, 0, 0, 0, 1>>

DecDigit == <<"0", "1", "2", "3", "4", "5", "6", "7", "8", "9">>
HexDigit == DecDigit \o <<"a", "b", "c", "d", "e", "f">>

RECURSIVE Dec(_)
Dec(n) == IF n < 10 THEN <<DecDigit[n + 1]>>
          ELSE Dec(n \div 10) \o <<DecDigit[(n % 10) + 1]>>

RECURSIVE Hex(_)
Hex(n) == IF n < 16 THEN <<HexDigit[n + 1]>>
          ELSE Hex(n \div 16) \o <<HexDigit[(n % 16) + 1]>>

RECURSIVE Join(_, _)
Join(parts, sep) ==
    IF Len(parts) = 0 THEN <<>>
    ELSE IF Len(parts) = 1 THEN parts[1]
    ELSE parts[1] \o sep \o Join(Tail(parts), sep)

RECURSIVE ZeroRun(_, _)
ZeroRun(s, i) == IF i > Len(s) \/ s[i] # 0 THEN 0 ELSE 1 + ZeroRun(s, i + 1)

\* Display of an IP address: dotted decimal for V4; for V6 lower-case hex
\* groups with the first longest run of two or more zero groups as "::".
ip_to_string(ip) ==
    IF ip.kind = "V4"
    THEN Join([i \in 1..4 |-> Dec(ip.octets[i])], <<".">>)
    ELSE LET s == ip.segments
             best == CHOOSE i \in 1..8 :
                        \A j \in 1..8 :
                            \/ ZeroRun(s, j) < ZeroRun(s, i)
                            \/ ZeroRun(s, j) = ZeroRun(s, i) /\ i <= j
             n == ZeroRun(s, best)
             hex == [i \in 1..8 |-> Hex(s[i])]
         IN IF n < 2 THEN Join(hex, <<":">>)
            ELSE Join(SubSeq(hex, 1, best - 1), <<":">>) \o <<":", ":">>
                    \o Join(SubSeq(hex, best + n, 8), <<":">>)

keep_ip_v4_only(ip) == is_ipv4(ip)

\* .filter(|ip| ip.is_ipv4() && !ip.is_loopback())
keep_ip(ip) == is_ipv4(ip) /\ ~is_loopback(ip)

RECURSIVE ip_list_of(_)
ip_list_of(ifs) ==
    IF ifs = <<>> THEN <<>>
    ELSE LET ip == Head(ifs).addr
         IN (IF keep_ip(ip) THEN <<ip_to_string(ip)>> ELSE <<>>)
                \o ip_list_of(Tail(ifs))


(***************************************************************************)
(* ConfigBuilder and Config                                                *)
(***************************************************************************)
RetryPolicyDefault_retries3 ==
    [enabled |-> FALSE, retries |-> 3, delay |-> 100, max_delay |-> 2000,
     factor |-> 2]

RetryPolicyDefault ==
    [enabled |-> FALSE, retries |-> 5, delay |-> 100, max_delay |-> 2000,
     factor |-> 2]

TrackingDefault == [enabled |-> FALSE, shutdown_timeout |-> 10000]

\* threshold is the f32 0.5; the code never computes with it
CircuitBreakerDefault ==
    [enabled |-> FALSE, threshold |-> "0.5", min_request_count |-> 20,
     window_time |-> 60, half_open_time |-> 10000]

BulkheadDefault == [enabled |-> FALSE, concurrency |-> 3, max_queue_size |-> 10]

TransitDefault ==
    [max_queue_size |-> 50000, max_chunk_size |-> 256,
     disable_reconnect |-> FALSE, disable_version_check |-> FALSE,
     packet_log_filter |-> <<>>]

\* ConfigBuilder::default(), with the node id gen_node_id() returned
ConfigBuilderDefault(gen_node_id) ==
    [namespace |-> <<>>,
     node_id |-> gen_node_id,
     logger |-> "Console",
     log_level |-> "Info",
     transporter |-> [tag |-> "Nats", address |-> "nats://localhost:4222"],
     request_timeout |-> 0,
     retry_policy |-> RetryPolicyDefault,
     context_params_cloning |-> FALSE,
     dependency_internal |-> 1000,
     max_call_level |-> 0,
     heartbeat_interval |-> 5,
     heartbeat_timeout |-> 15,
     tracking |-> TrackingDefault,
     disable_balancer |-> FALSE,
     registry |-> "Local",
     circuit_breaker |-> CircuitBreakerDefault,
     bulkhead |-> BulkheadDefault,
     transit |-> TransitDefault,
     serializer |-> "JSON",
     meta_data |-> <<>>]

BuilderFields ==
    {"namespace", "node_id", "logger", "log_level", "transporter",
     "request_timeout", "retry_policy", "context_params_cloning",
     "dependency_internal", "max_call_level", "heartbeat_interval",
     "heartbeat_timeout", "tracking", "disable_balancer", "registry",
     "circuit_breaker", "bulkhead", "transit", "serializer", "meta_data"}

\* The values a user assigns to a public field of the builder
OverrideValues(f) ==
    CASE f = "namespace" -> Namespaces
      [] f = "node_id" -> NodeIds
      [] f = "logger" -> {"Console"}
      [] f = "log_level" -> {"Error", "Trace"}
      [] f = "transporter" -> {[tag |-> "Nats", address |-> "nats://mesh:4222"]}
      [] f = "request_timeout" -> {-1, 3000}
      [] f = "retry_policy" ->
            {[enabled |-> TRUE, retries |-> 2, delay |-> 50, max_delay |-> 500,
              factor |-> 3]}
      [] f = "context_params_cloning" -> {TRUE}
      [] f = "dependency_internal" -> {250}
      [] f = "max_call_level" -> {8}
      [] f = "heartbeat_interval" -> {15}
      [] f = "heartbeat_timeout" -> {5}
      [] f = "tracking" -> {[enabled |-> TRUE, shutdown_timeout |-> 1]}
      [] f = "disable_balancer" -> {TRUE}
      [] f = "registry" -> {"Local"}
      [] f = "circuit_breaker" ->
            {[enabled |-> TRUE, threshold |-> "0.9", min_request_count |-> 1,
              window_time |-> 10, half_open_time |-> 60]}
      [] f = "bulkhead" ->
            {[enabled |-> TRUE, concurrency |-> 10, max_queue_size |-> 3]}
      [] f = "transit" ->
            {[max_queue_size |-> 256, max_chunk_size |-> 50000,
              disable_reconnect |-> TRUE, disable_version_check |-> TRUE,
              packet_log_filter |-> <<"HEARTBEAT">>]}
      [] f = "serializer" -> {"JSON"}
      [] f = "meta_data" -> {[region |-> "eu"]}

\* ConfigBuilder::build(self), given what the OS and the generator return
build(self, hostname, uuid, if_addrs) ==
    [namespace |-> self.namespace,
     node_id |-> self.node_id,
     logger |-> self.logger,
     log_level |-> self.log_level,
     transporter |-> self.transporter,
     request_timeout |-> self.request_timeout,
     retry_policy |-> self.retry_policy,
     context_params_cloning |-> self.context_params_cloning,
     dependency_internal |-> self.dependency_internal,
     max_call_level |-> self.max_call_level,
     heartbeat_interval |-> self.heartbeat_interval,
     heartbeat_timeout |-> self.heartbeat_timeout,
     tracking |-> self.tracking,
     disable_balancer |-> self.disable_balancer,
     registry |-> self.registry,
     circuit_breaker |-> self.circuit_breaker,
     bulkhead |-> self.bulkhead,
     transit |-> self.transit,
     serializer |-> self.serializer,
     meta_data |-> self.meta_data,
     hostname |-> hostname,
     instance_id |-> uuid,
     ip_list |-> ip_list_of(unwrap_or_default(if_addrs))]

(***************************************************************************)
(* channel/name.rs: the free functions                                     *)
(***************************************************************************)
name_mol_no_namespace(config) == <<"M", "O", "L">>

name_mol(config) ==
    IF config.namespace = <<>> THEN <<"M", "O", "L">>
    ELSE <<"M", "O", "L", "-">> \o config.namespace

event(config) == name_mol(config) \o <<".", "E", "V", "E", "N", "T", ".">> \o config.node_id

request(config) == name_mol(config) \o <<".", "R", "E", "Q", ".">> \o config.node_id

response(config) == name_mol(config) \o <<".", "R", "E", "S", ".">> \o config.node_id

discover(config) == name_mol(config) \o <<".", "D", "I", "S", "C", "O", "V", "E", "R">>

discover_targeted(config) == name_mol(config) \o <<".", "D", "I", "S", "C", "O", "V", "E", "R", ".">> \o config.node_id

info(config) == name_mol(config) \o <<".", "I", "N", "F", "O">>

info_targeted(config) == name_mol(config) \o <<".", "I", "N", "F", "O", ".">> \o config.node_id

heartbeat(config) == name_mol(config) \o <<".", "H", "E", "A", "R", "T", "B", "E", "A", "T">>

ping(config) == name_mol(config) \o <<".", "P", "I", "N", "G">>

ping_targeted(config) == name_mol(config) \o <<".", "P", "I", "N", "G", ".">> \o config.node_id

pong(config) == name_mol(config) \o <<".", "P", "O", "N", "G", ".">> \o config.node_id

disconnect(config) == name_mol(config) \o <<".", "D", "I", "S", "C", "O", "N", "N", "E", "C", "T">>

\* The free function that derives the topic of a role; PongPrefix has none
NameRoles ==
    {"Event", "Request", "Response", "Discover", "DiscoverTargeted", "Info",
     "InfoTargeted", "Heartbeat", "Ping", "PingTargeted", "Pong", "Disconnect"}

name_fn(role, config) ==
    CASE role = "Event" -> event(config)
      [] role = "Request" -> request(config)
      [] role = "Response" -> response(config)
      [] role = "Discover" -> discover(config)
      [] role = "DiscoverTargeted" -> discover_targeted(config)
      [] role = "Info" -> info(config)
      [] role = "InfoTargeted" -> info_targeted(config)
      [] role = "Heartbeat" -> heartbeat(config)
      [] role = "Ping" -> ping(config)
      [] role = "PingTargeted" -> ping_targeted(config)
      [] role = "Pong" -> pong(config)
      [] role = "Disconnect" -> disconnect(config)

(***************************************************************************)
(* config.rs: Channel                                                      *)
(***************************************************************************)
Channel ==
    {"Event", "Request", "Response", "Discover", "DiscoverTargeted", "Info",
     "InfoTargeted", "Heartbeat", "Ping", "PongPrefix", "Pong", "PingTargeted",
     "Disconnect"}

ChannelIter_no_disconnect ==
    <<"Event", "Request", "Response", "Discover", "DiscoverTargeted", "Info",
      "InfoTargeted", "Heartbeat", "Ping", "PongPrefix", "Pong", "PingTargeted">>

\* Channel::iter(): the variants in declaration order
ChannelIter ==
    <<"Event", "Request", "Response", "Discover", "DiscoverTargeted", "Info",
      "InfoTargeted", "Heartbeat", "Ping", "PongPrefix", "Pong", "PingTargeted",
      "Disconnect">>

mol_no_dash(config) == <<"M", "O", "L">> \o config.namespace

mol_no_namespace(config) == <<"M", "O", "L">>

mol(config) ==
    IF config.namespace = <<>> THEN <<"M", "O", "L">>
    ELSE <<"M", "O", "L", "-">> \o config.namespace

\* Pong formatted as "{}.PONG{}"
channel_to_string_pong_no_dot(channel, config) ==
    CASE channel = "Pong" -> mol(config) \o <<".", "P", "O", "N", "G">> \o config.node_id
      [] channel = "PongPrefix" -> mol(config) \o <<".", "P", "O", "N", "G">>
      [] OTHER -> name_fn(channel, config)

\* Response formatted as "{}.REQ.{}"
channel_to_string_res_as_req(channel, config) ==
    CASE channel = "Response" -> mol(config) \o <<".", "R", "E", "Q", ".">> \o config.node_id
      [] channel = "PongPrefix" -> mol(config) \o <<".", "P", "O", "N", "G">>
      [] OTHER -> name_fn(channel, config)

\* Event addressed by instance_id instead of node_id
channel_to_string_instance_id(channel, config) ==
    CASE channel = "Event" -> mol(config) \o <<".", "E", "V", "E", "N", "T", ".">> \o config.instance_id
      [] channel = "PongPrefix" -> mol(config) \o <<".", "P", "O", "N", "G">>
      [] OTHER -> name_fn(channel, config)

\* Heartbeat formatted as "{}.HEARTBEAT.{}"
channel_to_string_heartbeat_targeted(channel, config) ==
    CASE channel = "Heartbeat" -> mol(config) \o <<".", "H", "E", "A", "R", "T", "B", "E", "A", "T", ".">> \o config.node_id
      [] channel = "PongPrefix" -> mol(config) \o <<".", "P", "O", "N", "G">>
      [] OTHER -> name_fn(channel, config)

channel_to_string(channel, config) ==
    CASE channel = "Event" -> mol(config) \o <<".", "E", "V", "E", "N", "T", ".">> \o config.node_id
      [] channel = "Request" -> mol(config) \o <<".", "R", "E", "Q", ".">> \o config.node_id
      [] channel = "Response" -> mol(config) \o <<".", "R", "E", "S", ".">> \o config.node_id
      [] channel = "Discover" -> mol(config) \o <<".", "D", "I", "S", "C", "O", "V", "E", "R">>
      [] channel = "DiscoverTargeted" ->
            mol(config) \o <<".", "D", "I", "S", "C", "O", "V", "E", "R", ".">> \o config.node_id
      [] channel = "Info" -> mol(config) \o <<".", "I", "N", "F", "O">>
      [] channel = "InfoTargeted" -> mol(config) \o <<".", "I", "N", "F", "O", ".">> \o config.node_id
      [] channel = "Heartbeat" -> mol(config) \o <<".", "H", "E", "A", "R", "T", "B", "E", "A", "T">>
      [] channel = "Ping" -> mol(config) \o <<".", "P", "I", "N", "G">>
      [] channel = "PingTargeted" -> mol(config) \o <<".", "P", "I", "N", "G", ".">> \o config.node_id
      [] channel = "PongPrefix" -> mol(config) \o <<".", "P", "O", "N", "G">>
      [] channel = "Pong" -> mol(config) \o <<".", "P", "O", "N", "G", ".">> \o config.node_id
      [] channel = "Disconnect" -> mol(config) \o <<".", "D", "I", "S", "C", "O", "N", "N", "E", "C", "T">>

\* .map(|channel| (channel.clone(), channel.channel_to_string(config)))
\* .collect(): the pairs are inserted in iteration order
RECURSIVE collect(_, _, _)
collect(iter, i, config) ==
    IF i = 0 THEN <<>>
    ELSE (iter[i] :> channel_to_string(iter[i], config))
            @@ collect(iter, i - 1, config)

build_hashmap(config) == collect(ChannelIter, Len(ChannelIter), config)


(***************************************************************************)
(* The state machine.  env is what the operating system reports; builder,  *)
(* cfg and table hold at most one value per node (<<>> when there is       *)
(* none); overrides remembers the fields the user assigned and the value   *)
(* assigned last; last is the result of the latest topic derivation.       *)
(***************************************************************************)
Some(x) == <<x>>
None == <<>>

Envs == [hostname : Hostnames, if_addrs : IfAddrResults]

\* An environment with one interface list, for the runs about topics
EnvsPlain ==
    {e \in Envs : /\ e.hostname = <<"h", "a">>
                  /\ e.if_addrs.tag = "Ok"
                  /\ Len(e.if_addrs.val) = 1
                  /\ e.if_addrs.val[1].name = "eth0"}

\* ConfigBuilder::new() on the nodes of S
InitWith(E, S) ==
    /\ env \in E
    /\ builder \in [Nodes -> {None} \cup {Some(ConfigBuilderDefault(g)) : g \in GenNodeIds}]
    /\ \A n \in Nodes : (builder[n] # None) <=> (n \in S)
    /\ overrides = [n \in Nodes |-> <<>>]
    /\ cfg = [n \in Nodes |-> None]
    /\ table = [n \in Nodes |-> None]
    /\ last = [n \in Nodes |-> None]

\* builder.f = v
Override(n, f, v) ==
    /\ builder[n] # None
    /\ f \in DOMAIN overrides[n] \/ Cardinality(DOMAIN overrides[n]) < MaxOverrides
    /\ builder' = [builder EXCEPT ![n] = Some([builder[n][1] EXCEPT ![f] = v])]
    /\ overrides' = [overrides EXCEPT ![n] = (f :> v) @@ overrides[n]]
    /\ UNCHANGED <<env, cfg, table, last>>

\* let config = builder.build(): the builder is consumed
Build(n) ==
    /\ builder[n] # None
    /\ \E uuid \in Uuids :
          cfg' = [cfg EXCEPT ![n] =
                    Some(build(builder[n][1], env.hostname, uuid, env.if_addrs))]
    /\ builder' = [builder EXCEPT ![n] = None]
    /\ UNCHANGED <<env, overrides, table, last>>

\* channel.channel_to_string(&config)
ChannelToString(n, channel) ==
    /\ cfg[n] # None
    /\ last' = [last EXCEPT ![n] =
                  Some([site |-> "config", role |-> channel,
                        topic |-> channel_to_string(channel, cfg[n][1])])]
    /\ UNCHANGED <<env, builder, overrides, cfg, table>>

\* channel::name::event(&config), ..., channel::name::disconnect(&config)
NameCall(n, role) ==
    /\ cfg[n] # None
    /\ last' = [last EXCEPT ![n] =
                  Some([site |-> "name", role |-> role,
                        topic |-> name_fn(role, cfg[n][1])])]
    /\ UNCHANGED <<env, builder, overrides, cfg, table>>

\* Channel::build_hashmap(&config)
BuildHashmap(n) ==
    /\ cfg[n] # None
    /\ table' = [table EXCEPT ![n] = Some(build_hashmap(cfg[n][1]))]
    /\ UNCHANGED <<env, builder, overrides, cfg, last>>

TopicFields == {"namespace", "node_id"}

\* One node: identity overrides, build, and every topic derivation
Init == InitWith(EnvsPlain, {1})

Next ==
    \/ \E f \in TopicFields : \E v \in OverrideValues(f) : Override(1, f, v)
    \/ Build(1)
    \/ \E channel \in Channel : ChannelToString(1, channel)
    \/ \E role \in NameRoles : NameCall(1, role)
    \/ BuildHashmap(1)

Spec == Init /\ [][Next]_vars

\* Two nodes on one transport
InitPair == InitWith(EnvsPlain, Nodes)

NextPair ==
    \E n \in Nodes :
        \/ \E f \in TopicFields : \E v \in OverrideValues(f) : Override(n, f, v)
        \/ Build(n)

SpecPair == InitPair /\ [][NextPair]_vars

\* One node: overrides of any builder field, then build
InitBuild == InitWith(EnvsPlain, {1})

NextBuild ==
    \/ \E f \in BuilderFields : \E v \in OverrideValues(f) : Override(1, f, v)
    \/ Build(1)

SpecBuild == InitBuild /\ [][NextBuild]_vars

\* One node built under every outcome of the interface enumeration
InitEnv == InitWith(Envs, {1})

NextEnv ==
    \/ \E v \in OverrideValues("node_id") : Override(1, "node_id", v)
    \/ Build(1)

SpecEnv == InitEnv /\ [][NextEnv]_vars


(***************************************************************************)
(* Properties                                                              *)
(***************************************************************************)
StartsWith(s, p) == Len(p) <= Len(s) /\ SubSeq(s, 1, Len(p)) = p

EndsWith(s, p) == Len(p) <= Len(s) /\ SubSeq(s, Len(s) - Len(p) + 1, Len(s)) = p

Contains(s, p) ==
    \E i \in 0..(Len(s) - Len(p)) : SubSeq(s, i + 1, i + Len(p)) = p

Built == {n \in Nodes : cfg[n] # None}

NodeScoped ==
    {"Event", "Request", "Response", "DiscoverTargeted", "InfoTargeted",
     "PingTargeted", "Pong"}

Broadcast == {"Discover", "Info", "Heartbeat", "Ping", "Disconnect", "PongPrefix"}

\* The ROLE word of the topic grammar for each role
RoleWord(r) ==
    CASE r = "Event" -> <<"E", "V", "E", "N", "T">>
      [] r = "Request" -> <<"R", "E", "Q">>
      [] r = "Response" -> <<"R", "E", "S">>
      [] r \in {"Discover", "DiscoverTargeted"} -> <<"D", "I", "S", "C", "O", "V", "E", "R">>
      [] r \in {"Info", "InfoTargeted"} -> <<"I", "N", "F", "O">>
      [] r = "Heartbeat" -> <<"H", "E", "A", "R", "T", "B", "E", "A", "T">>
      [] r \in {"Ping", "PingTargeted"} -> <<"P", "I", "N", "G">>
      [] r \in {"Pong", "PongPrefix"} -> <<"P", "O", "N", "G">>
      [] r = "Disconnect" -> <<"D", "I", "S", "C", "O", "N", "N", "E", "C", "T">>

ExpectedPrefix(c) ==
    IF c.namespace = <<>> THEN <<"M", "O", "L", ".">> ELSE <<"M", "O", "L", "-">> \o c.namespace \o <<".">>

\* C1: every topic of a built Config, derived directly or stored in the table,
\* begins with "MOL." when the namespace is empty and with "MOL-<namespace>."
\* otherwise, the same prefix for all 13 roles.
C1_NamespacePrefix ==
    \A n \in Built :
        LET c == cfg[n][1] IN
        /\ Cardinality(Channel) = 13
        /\ \A r \in Channel : StartsWith(channel_to_string(r, c), ExpectedPrefix(c))
        /\ last[n] # None /\ last[n][1].site = "config"
              => StartsWith(last[n][1].topic, ExpectedPrefix(c))
        /\ table[n] # None
              => \A r \in DOMAIN table[n][1] :
                    StartsWith(table[n][1][r], ExpectedPrefix(c))

C1_Witness ==
    /\ 1 \in Built
    /\ cfg[1][1].namespace = <<"a", ".", "R", "E", "Q">>
    /\ last[1] # None
    /\ last[1][1].site = "config"
    /\ last[1][1].role = "Heartbeat"
    /\ last[1][1].topic = <<"M", "O", "L", "-", "a", ".", "R", "E", "Q", ".", "H", "E", "A", "R", "T", "B", "E", "A", "T">>

\* C2 as stated: node-scoped topics end with "." + node_id, and broadcast
\* topics never contain the node id as a substring.
C2_Original ==
    \A n \in Built :
        LET c == cfg[n][1] IN
        /\ \A r \in NodeScoped :
              EndsWith(channel_to_string(r, c), <<".">> \o c.node_id)
        /\ \A r \in Broadcast : ~Contains(channel_to_string(r, c), c.node_id)

\* C2 amended: node-scoped topics end with "." + node_id; a broadcast topic is
\* exactly the namespace prefix, ".", and the ROLE word, with nothing appended,
\* so it is the same whatever the node id is.
C2_BroadcastIgnoresNodeId ==
    \A n \in Built :
        LET c == cfg[n][1] IN
        /\ \A r \in NodeScoped :
              EndsWith(channel_to_string(r, c), <<".">> \o c.node_id)
        /\ \A r \in Broadcast :
              /\ channel_to_string(r, c) = ExpectedPrefix(c) \o RoleWord(r)
              /\ \A id \in NodeIds \cup GenNodeIds :
                    channel_to_string(r, [c EXCEPT !.node_id = id])
                        = channel_to_string(r, c)

C2_Witness ==
    /\ 1 \in Built
    /\ cfg[1][1].node_id = <<"I", "N", "F", "O">>
    /\ last[1] # None
    /\ last[1][1].site = "config"
    /\ last[1][1].role = "Info"
    /\ last[1][1].topic = <<"M", "O", "L", ".", "I", "N", "F", "O">>

NoCollision(c1, c2) ==
    LET t1 == [r \in Channel |-> channel_to_string(r, c1)]
        t2 == [r \in Channel |-> channel_to_string(r, c2)]
    IN \A r1, r2 \in Channel :
          t1[r1] = t2[r2] =>
              /\ c1.namespace = c2.namespace
              /\ r1 = r2
              /\ r1 \in NodeScoped => c1.node_id = c2.node_id

\* C3 as stated: two Configs with arbitrary namespaces and node ids never
\* derive the same topic unless namespace and role (and, for a node-scoped
\* role, the node id) are the same.
C3_Original ==
    \A n1, n2 \in Built : NoCollision(cfg[n1][1], cfg[n2][1])

DotFree(s) == \A i \in 1..Len(s) : s[i] # "."

\* C3 amended: the same, for Configs whose namespaces contain no "."; the node
\* ids stay arbitrary.
C3_NoCollisionDotFreeNamespace ==
    \A n1, n2 \in Built :
        DotFree(cfg[n1][1].namespace) /\ DotFree(cfg[n2][1].namespace)
            => NoCollision(cfg[n1][1], cfg[n2][1])

C3_Witness ==
    /\ Built = Nodes
    /\ cfg[1][1].namespace = <<"a">>
    /\ cfg[2][1].namespace = <<"a", "a">>
    /\ cfg[1][1].node_id = <<"I", "N", "F", "O">>
    /\ cfg[2][1].node_id = <<".">>
    /\ channel_to_string("Request", cfg[1][1]) = <<"M", "O", "L", "-", "a", ".", "R", "E", "Q", ".", "I", "N", "F", "O">>
    /\ channel_to_string("Info", cfg[2][1]) = <<"M", "O", "L", "-", "a", "a", ".", "I", "N", "F", "O">>

\* C4: the table build_hashmap returned has exactly the 13 Channel variants as
\* keys, and each value is channel_to_string of its key on the same Config.
C4_TableComplete ==
    \A n \in Built :
        table[n] # None =>
            /\ DOMAIN table[n][1] = NodeScoped \cup Broadcast
            /\ Cardinality(DOMAIN table[n][1]) = 13
            /\ \A r \in NodeScoped \cup Broadcast :
                  table[n][1][r] = channel_to_string(r, cfg[n][1])

C4_Witness ==
    /\ 1 \in Built
    /\ table[1] # None
    /\ cfg[1][1].namespace = <<"a">>
    /\ table[1][1]["Disconnect"] = <<"M", "O", "L", "-", "a", ".", "D", "I", "S", "C", "O", "N", "N", "E", "C", "T">>
    /\ table[1][1]["Event"] = <<"M", "O", "L", "-", "a", ".", "E", "V", "E", "N", "T", ".", "n", "1">>

\* C5: the Pong and PongPrefix topics of a Config differ, and the Pong topic
\* is the PongPrefix topic followed by "." and the node id.
C5_PongVsPongPrefix ==
    \A n \in Built :
        LET c == cfg[n][1] IN
        /\ channel_to_string("Pong", c) # channel_to_string("PongPrefix", c)
        /\ channel_to_string("Pong", c)
              = channel_to_string("PongPrefix", c) \o <<".">> \o c.node_id
        /\ table[n] # None =>
              /\ table[n][1]["Pong"] # table[n][1]["PongPrefix"]
              /\ table[n][1]["Pong"]
                    = table[n][1]["PongPrefix"] \o <<".">> \o c.node_id

C5_Witness ==
    /\ 1 \in Built
    /\ cfg[1][1].node_id = <<>>
    /\ table[1] # None
    /\ table[1][1]["Pong"] = <<"M", "O", "L", ".", "P", "O", "N", "G", ".">>
    /\ table[1][1]["PongPrefix"] = <<"M", "O", "L", ".", "P", "O", "N", "G">>

DocumentedDefault ==
    [namespace |-> <<>>,
     request_timeout |-> 0,
     retry_policy |-> [enabled |-> FALSE, retries |-> 5, delay |-> 100,
                       max_delay |-> 2000, factor |-> 2],
     heartbeat_interval |-> 5,
     heartbeat_timeout |-> 15,
     tracking |-> [enabled |-> FALSE, shutdown_timeout |-> 10000],
     registry |-> "Local",
     circuit_breaker |-> [enabled |-> FALSE, threshold |-> "0.5",
                          min_request_count |-> 20, window_time |-> 60,
                          half_open_time |-> 10000],
     bulkhead |-> [enabled |-> FALSE, concurrency |-> 3, max_queue_size |-> 10],
     serializer |-> "JSON",
     log_level |-> "Info"]

\* C6: in a built Config every builder field the user assigned holds the value
\* assigned, and every field the user left alone holds its documented default.
C6_DefaultsAndOverrides ==
    \A n \in Built :
        LET c == cfg[n][1]
            o == overrides[n]
        IN /\ \A f \in BuilderFields : f \in DOMAIN o => c[f] = o[f]
           /\ \A f \in DOMAIN DocumentedDefault :
                 f \notin DOMAIN o => c[f] = DocumentedDefault[f]
           /\ "transit" \notin DOMAIN o =>
                 /\ c.transit.max_queue_size = 50000
                 /\ c.transit.max_chunk_size = 256
                 /\ ~c.transit.disable_reconnect
                 /\ ~c.transit.disable_version_check

C6_Witness ==
    /\ 1 \in Built
    /\ DOMAIN overrides[1] = {"heartbeat_timeout", "bulkhead"}
    /\ cfg[1][1].heartbeat_timeout = 5
    /\ cfg[1][1].bulkhead.concurrency = 10
    /\ cfg[1][1].heartbeat_interval = 5
    /\ cfg[1][1].retry_policy.retries = 5
    /\ cfg[1][1].transit.max_chunk_size = 256

Usable(ifs) ==
    {i \in 1..Len(ifs) :
        ifs[i].addr.kind = "V4" /\ ifs[i].addr.octets[1] # 127}

\* C7: build is possible under every outcome of the interface enumeration;
\* ip_list is empty when the enumeration failed or found no usable address,
\* and otherwise holds exactly the enumerated IPv4 non-loopback addresses,
\* never an IPv6 or a loopback one.
C7_IpList ==
    /\ \A n \in Nodes : builder[n] # None => ENABLED Build(n)
    /\ \A n \in Built :
          LET ips == cfg[n][1].ip_list
              ifs == env.if_addrs.val
          IN /\ env.if_addrs.tag = "Err" => ips = <<>>
             /\ env.if_addrs.tag = "Ok" =>
                   /\ Len(ips) = Cardinality(Usable(ifs))
                   /\ {ips[i] : i \in 1..Len(ips)}
                         = {ip_to_string(ifs[i].addr) : i \in Usable(ifs)}
             /\ \A i \in 1..Len(ips) :
                   /\ ~StartsWith(ips[i], <<"1", "2", "7", ".">>)
                   /\ ~Contains(ips[i], <<":">>)

C7_Witness ==
    /\ 1 \in Built
    /\ env.if_addrs.tag = "Ok"
    /\ Len(env.if_addrs.val) = 2
    /\ env.if_addrs.val[1].name = "lo"
    /\ env.if_addrs.val[2].name = "eth1"
    /\ cfg[1][1].ip_list = <<<<"1", "9", "2", ".", "1", "6", "8", ".", "1", ".", "2", "0">>>>

\* Configs that agree with c on namespace and node_id and differ in one
\* other field
SameIdentity(c) ==
    UNION {{[c EXCEPT ![f] = v] : v \in OverrideValues(f)} :
              f \in BuilderFields \ {"namespace", "node_id"}}
      \cup {[c EXCEPT !.instance_id = u] : u \in Uuids}
      \cup {[c EXCEPT !.hostname = h] : h \in Hostnames}
      \cup {[c EXCEPT !.ip_list = ip_list_of(unwrap_or_default(r))] :
                r \in IfAddrResults}

\* C8: the topic of a role depends only on the role, the namespace and the
\* node id: a Config that differs from a built one in any other field derives
\* the same topic for every role, and the string a derivation returned, at
\* either site, is the one the table built before or after it holds.
C8_DependsOnlyOnIdentity ==
    \A n \in Built :
        LET c == cfg[n][1] IN
        /\ \A d \in SameIdentity(c) : \A r \in Channel :
              channel_to_string(r, d) = channel_to_string(r, c)
        /\ last[n] # None /\ last[n][1].site = "config" =>
              /\ last[n][1].topic = channel_to_string(last[n][1].role, c)
              /\ table[n] # None =>
                    last[n][1].topic = table[n][1][last[n][1].role]

C8_Witness ==
    /\ 1 \in Built
    /\ cfg[1][1].namespace = <<"a">>
    /\ cfg[1][1].node_id = <<".", "I", "N", "F", "O">>
    /\ table[1] # None
    /\ last[1] # None
    /\ last[1][1].site = "config"
    /\ last[1][1].role = "Event"
    /\ last[1][1].topic = <<"M", "O", "L", "-", "a", ".", "E", "V", "E", "N", "T", ".", ".", "I", "N", "F", "O">>
    /\ table[1][1]["Event"] = last[1][1].topic
    /\ \E d \in SameIdentity(cfg[1][1]) :
          d.instance_id # cfg[1][1].instance_id

\* C9: each free function of channel/name.rs returns the string
\* channel_to_string returns for its role, the two mol helpers return the same
\* prefix, and PongPrefix is the only role without a free function.
C9_SitesAgree ==
    /\ NameRoles = Channel \ {"PongPrefix"}
    /\ \A n \in Built :
          LET c == cfg[n][1] IN
          /\ name_mol(c) = mol(c)
          /\ \A r \in NameRoles : name_fn(r, c) = channel_to_string(r, c)
          /\ last[n] # None /\ last[n][1].site = "name" /\ table[n] # None
                => last[n][1].topic = table[n][1][last[n][1].role]

C9_Witness ==
    /\ 1 \in Built
    /\ cfg[1][1].namespace = <<"a">>
    /\ table[1] # None
    /\ last[1] # None
    /\ last[1][1].site = "name"
    /\ last[1][1].role = "Pong"
    /\ last[1][1].topic = <<"M", "O", "L", "-", "a", ".", "P", "O", "N", "G", ".", "n", "1">>

\* C10: within one Config the 13 roles have 13 pairwise different topics, so
\* no topic is stored under two roles of the table.
C10_RolesDistinct ==
    \A n \in Built :
        LET c == cfg[n][1] IN
        /\ \A r1, r2 \in Channel :
              r1 # r2 => channel_to_string(r1, c) # channel_to_string(r2, c)
        /\ table[n] # None =>
              Cardinality({table[n][1][r] : r \in DOMAIN table[n][1]}) = 13

C10_Witness ==
    /\ 1 \in Built
    /\ cfg[1][1].node_id = <<"I", "N", "F", "O">>
    /\ cfg[1][1].namespace = <<".", "R", "E", "Q">>
    /\ table[1] # None
    /\ table[1][1]["InfoTargeted"] = <<"M", "O", "L", "-", ".", "R", "E", "Q", ".", "I", "N", "F", "O", ".", "I", "N", "F", "O">>

====
